---- MODULE Spec2Model ----
(***************************************************************************)
(* Model of gfagraphs.py: the GFA graph container (Graph), its loader,    *)
(* the two segment editing operations split_segments and merge_segments,   *)
(* assert_format, the edge lookups and save_graph.                         *)
(*                                                                         *)
(* Text is modelled as a sequence of one-character strings, a Python dict  *)
(* as a function from key strings to values ("k" \in DOMAIN d is Python's  *)
(* 'k' in d), a Python list as a sequence.  A Python exception ends the    *)
(* call where it is raised: every assignment made before it stays.         *)
(***************************************************************************)
EXTENDS Integers, Sequences, FiniteSets, TLC

(***************************************************************************)
(* Python primitives used by the source.                                   *)
(***************************************************************************)
Min(a, b) == IF a <= b THEN a ELSE b

Max(a, b) == IF a >= b THEN a ELSE b

\* s[a:b] for 0 <= a, 0 <= b (Python clamps both ends to len(s)).
Slice(s, a, b) ==
    LET lo == Min(a, Len(s))
        hi == Min(b, Len(s))
    IN  IF lo >= hi THEN << >> ELSE SubSeq(s, lo + 1, hi)

\* s[a:]
SliceFrom(s, a) == Slice(s, a, Len(s))

\* c * n : the one-character text c repeated n times.
Repeat(c, n) == [i \in 1..n |-> c]

Digits == {"0", "1", "2", "3", "4", "5", "6", "7", "8", "9"}

DigitVal(c) ==
    CASE c = "0" -> 0 [] c = "1" -> 1 [] c = "2" -> 2 [] c = "3" -> 3
      [] c = "4" -> 4 [] c = "5" -> 5 [] c = "6" -> 6 [] c = "7" -> 7
      [] c = "8" -> 8 [] c = "9" -> 9

\* sub('\D', '', s) : s without its non-digit characters.
StripNonDigits(s) == SelectSeq(s, LAMBDA c : c \in Digits)

\* int(s) is defined on non-empty digit texts; anything else raises ValueError.
IntOk(s) == Len(s) > 0 /\ \A i \in 1..Len(s) : s[i] \in Digits

RECURSIVE IntOf(_)
IntOf(s) ==
    IF Len(s) = 0 THEN 0
    ELSE 10 * IntOf(SubSeq(s, 1, Len(s) - 1)) + DigitVal(s[Len(s)])

\* ''.join(parts)
RECURSIVE Join(_)
Join(parts) ==
    IF Len(parts) = 0 THEN << >> ELSE Head(parts) \o Join(Tail(parts))

\* s.replace(c, r) for a one-character c.
RECURSIVE Replace(_, _, _)
Replace(s, c, r) ==
    IF Len(s) = 0 THEN << >>
    ELSE (IF Head(s) = c THEN r ELSE << Head(s) >>) \o Replace(Tail(s), c, r)

\* s.split(sep) for a one-character sep: always at least one piece.
RECURSIVE SplitOn(_, _)
SplitOn(s, sep) ==
    IF \A i \in 1..Len(s) : s[i] # sep THEN << s >>
    ELSE LET p == CHOOSE i \in 1..Len(s) :
                      s[i] = sep /\ \A j \in 1..(i - 1) : s[j] # sep
         IN  << SubSeq(s, 1, p - 1) >> \o SplitOn(SubSeq(s, p + 1, Len(s)), sep)

\* d with d[k] = v (assignment to a dict key, new or existing).
SetKey(d, k, v) == (k :> v) @@ d

\* Orientation(c): the enum has the two values '+' and '-'.
OrientationOk(c) == c \in {"+", "-"}

(***************************************************************************)
(* Field parsers.  A line is its list of tab-separated fields; Python's    *)
(* datas[i] is line[i + 1] here.  A parser returns the record's dict, or   *)
(* Raised when it raises.                                                  *)
(***************************************************************************)
Raised == [exc |-> "ValueError"]

ArgKey(n) == "ARG" \o ToString(n)

UpperCase ==
    {"A", "B", "C", "D", "E", "F", "G", "H", "I", "J", "K", "L", "M",
     "N", "O", "P", "Q", "R", "S", "T", "U", "V", "W", "X", "Y", "Z"}

LowerCase ==
    {"a", "b", "c", "d", "e", "f", "g", "h", "i", "j", "k", "l", "m",
     "n", "o", "p", "q", "r", "s", "t", "u", "v", "w", "x", "y", "z"}

\* match('[A-Z]{2}:[a-zA-Z]{1}:', additional_tag), anchored at the start.
IsTag(additional_tag) ==
    /\ Len(additional_tag) >= 5
    /\ additional_tag[1] \in UpperCase
    /\ additional_tag[2] \in UpperCase
    /\ additional_tag[3] = ":"
    /\ additional_tag[4] \in UpperCase \cup LowerCase
    /\ additional_tag[5] = ":"

\* gtype(tag_type)(text) for the types A and Z, the casts to str: the text
\* itself.  The tags of this model's files are of these two types.
gtype(tag_type, text) == text

\* The loop of supplementary_datas: a typed tag is kept under its two
\* letters, any other field as it is under the next ARG<n> key.
RECURSIVE AddTags(_, _, _)
AddTags(tokens, nargs, mapping) ==
    IF Len(tokens) = 0 THEN mapping
    ELSE LET additional_tag == Head(tokens)
         IN  IF IsTag(additional_tag)
             THEN AddTags(Tail(tokens), nargs,
                          SetKey(mapping, additional_tag[1] \o additional_tag[2],
                                 gtype(additional_tag[4], SliceFrom(additional_tag, 5))))
             ELSE AddTags(Tail(tokens), nargs + 1,
                          SetKey(mapping, ArgKey(nargs), additional_tag))

supplementary_datas(datas, length_condition) ==
    AddTags(SliceFrom(datas, length_condition), length_condition, << >>)

default(datas, gfa_style, ws) ==
    IF gfa_style = "rGFA" THEN Raised ELSE supplementary_datas(datas, 0)

header(datas, gfa_style, ws) ==
    IF gfa_style = "rGFA" THEN Raised ELSE supplementary_datas(datas, 1)

\* The parser containment (the Graph has a field of the same name).
containment_line(datas, gfa_style, ws) ==
    IF gfa_style = "rGFA" THEN Raised ELSE supplementary_datas(datas, 1)

jump(datas, gfa_style, ws) ==
    IF gfa_style \in {"rGFA", "GFA1", "GFA1.1"} THEN Raised
    ELSE supplementary_datas(datas, 1)

segment(datas, gfa_style, ws) ==
    LET line_datas == [name |-> StripNonDigits(datas[2]), length |-> Len(datas[3])]
        with_seq == IF ws THEN SetKey(line_datas, "seq", datas[3]) ELSE line_datas
    IN  supplementary_datas(datas, 3) @@ with_seq

line(datas, gfa_style, ws) ==
    LET line_datas == [start |-> StripNonDigits(datas[2]),
                       end |-> StripNonDigits(datas[4]),
                       orientation |-> datas[3] \o << "/" >> \o datas[5]]
    IN  supplementary_datas(datas, 5) @@ line_datas

\* One step of a P line: the text but its last character, and that character.
PathStep(node) == << SubSeq(node, 1, Len(node) - 1), node[Len(node)] >>

path(datas, gfa_style, ws) ==
    LET nodes == SplitOn(datas[3], ",")
    IN  IF gfa_style = "rGFA" THEN Raised
        ELSE IF \E i \in 1..Len(nodes) :
                    Len(nodes[i]) = 0 \/ ~OrientationOk(nodes[i][Len(nodes[i])])
        THEN Raised
        ELSE supplementary_datas(datas, 7) @@
             [name |-> datas[2],
              path |-> [i \in 1..Len(nodes) |-> PathStep(nodes[i])]]

\* One step of a W line, after '>' became ',+' and '<' became ',-'.
WalkStep(node) == << SubSeq(node, 2, Len(node)), node[1] >>

walk_refused_by_rgfa_only(datas, gfa_style, ws) ==
    LET nodes == SplitOn(SliceFrom(Replace(Replace(datas[7], ">", << ",", "+" >>),
                                           "<", << ",", "-" >>), 1), ",")
    IN  IF gfa_style \in {"rGFA"} THEN Raised
        ELSE IF ~IntOk(datas[3]) THEN Raised
        ELSE IF \E i \in 1..Len(nodes) :
                    Len(nodes[i]) = 0 \/ ~OrientationOk(nodes[i][1])
        THEN Raised
        ELSE supplementary_datas(datas, 7) @@
             [id |-> datas[4], origin |-> IntOf(datas[3]), name |-> datas[2],
              start_offset |-> datas[5], stop_offset |-> datas[6],
              path |-> [i \in 1..Len(nodes) |-> WalkStep(nodes[i])]]

walk(datas, gfa_style, ws) ==
    LET nodes == SplitOn(SliceFrom(Replace(Replace(datas[7], ">", << ",", "+" >>),
                                           "<", << ",", "-" >>), 1), ",")
    IN  IF gfa_style \in {"rGFA", "GFA1"} THEN Raised
        ELSE IF ~IntOk(datas[3]) THEN Raised
        ELSE IF \E i \in 1..Len(nodes) :
                    Len(nodes[i]) = 0 \/ ~OrientationOk(nodes[i][1])
        THEN Raised
        ELSE supplementary_datas(datas, 7) @@
             [id |-> datas[4], origin |-> IntOf(datas[3]), name |-> datas[2],
              start_offset |-> datas[5], stop_offset |-> datas[6],
              path |-> [i \in 1..Len(nodes) |-> WalkStep(nodes[i])]]

\* The values of GfaStyle.
GfaStyle == {"rGFA", "GFA1", "GFA1.1", "GFA1.2", "GFA2", "unknown"}

\* LineType: the record kind named by the first character of the line, Other
\* for a character that names none.
LineType(gfa_data_line) ==
    IF gfa_data_line[1][1] \in {"H", "S", "L", "C", "P", "W", "J"}
    THEN gfa_data_line[1][1]
    ELSE "Other"

\* Record.__init__: kind and dict of one line.
Record(gfa_data_line, gfa_type, ws) ==
    LET kind == LineType(gfa_data_line)
    IN  [linetype |-> kind,
         datas |-> CASE kind = "S" -> segment(gfa_data_line, gfa_type, ws)
                     [] kind = "L" -> line(gfa_data_line, gfa_type, ws)
                     [] kind = "P" -> path(gfa_data_line, gfa_type, ws)
                     [] kind = "W" -> walk(gfa_data_line, gfa_type, ws)
                     [] kind = "H" -> header(gfa_data_line, gfa_type, ws)
                     [] kind = "C" -> containment_line(gfa_data_line, gfa_type, ws)
                     [] kind = "J" -> jump(gfa_data_line, gfa_type, ws)
                     [] OTHER -> default(gfa_data_line, gfa_type, ws)]

\* Graph.__init__: every line is parsed, then the records are partitioned by
\* kind, file order kept within each kind.
GfaLines(gfa_file, gfa_type, with_sequence) ==
    [i \in 1..Len(gfa_file) |-> Record(gfa_file[i], gfa_type, with_sequence)]

LoadOk(gfa_file, gfa_type, with_sequence) ==
    \A i \in 1..Len(gfa_file) :
        GfaLines(gfa_file, gfa_type, with_sequence)[i].datas # Raised

\* The position of the first line whose parser raises, 0 when none does.
FirstRaised(gfa_file, gfa_type, with_sequence) ==
    IF LoadOk(gfa_file, gfa_type, with_sequence) THEN 0
    ELSE CHOOSE i \in 1..Len(gfa_file) :
             /\ Record(gfa_file[i], gfa_type, with_sequence).datas = Raised
             /\ \A j \in 1..(i - 1) :
                    Record(gfa_file[j], gfa_type, with_sequence).datas # Raised

RECURSIVE DatasOfKind(_, _)
DatasOfKind(gfa_lines, kind) ==
    IF Len(gfa_lines) = 0 THEN << >>
    ELSE (IF Head(gfa_lines).linetype = kind THEN << Head(gfa_lines).datas >>
          ELSE << >>) \o DatasOfKind(Tail(gfa_lines), kind)

(***************************************************************************)
(* Input files.  Names are digit texts; "10" sorts after "2" as a number   *)
(* and before it as a text.                                                *)
(***************************************************************************)
\* The number of steps of a path or walk of an input file.
MaxPathLen == 4

\* The largest position a split is asked to cut at.
MaxOffset == 2

\* The largest number of new names, and of positions, given to a split.
MaxSplit == 2

\* The number of split and merge calls made on one graph.
MaxOps == 2

NamePool == { << "1" >>, << "2" >>, << "1", "0" >> }

AbsentName == << "7" >>

\* The names given to the fragments of a split, in the order they are given.
NewNames == << << "3" >>, << "1", "1" >>, << "4" >>, << "5" >> >>

SeqText(name) ==
    CASE name = << "1" >> -> << "A", "C", "G", "T" >>
      [] name = << "2" >> -> << "G", "G" >>
      [] OTHER -> << "T" >>

\* The sequences over S of length lo..hi, and those without a repeated element.
SeqsOf(S, lo, hi) == UNION { [1..n -> S] : n \in lo..hi }

IsInjective(q) == \A i, j \in 1..Len(q) : q[i] = q[j] => i = j

InjSeqsOf(S, lo, hi) == { q \in SeqsOf(S, lo, hi) : IsInjective(q) }

Range(q) == { q[i] : i \in 1..Len(q) }

SLine(name) == << << "S" >>, name, SeqText(name) >>

LLine(e) == << << "L" >>, e[1], << e[2] >>, e[3], << e[4] >>, << "*" >> >>

\* The text of a P line's steps: name then sign, comma-separated.
RECURSIVE PText(_)
PText(steps) ==
    IF Len(steps) = 0 THEN << >>
    ELSE Head(steps)[1] \o << Head(steps)[2] >> \o
         (IF Len(steps) = 1 THEN << >> ELSE << "," >> \o PText(Tail(steps)))

\* The text of a W line's steps: '>' or '<' then name, no separator.
RECURSIVE WText(_)
WText(steps) ==
    IF Len(steps) = 0 THEN << >>
    ELSE << IF Head(steps)[2] = "+" THEN ">" ELSE "<" >> \o Head(steps)[1] \o
         WText(Tail(steps))

PLine(steps) == << << "P" >>, << "p" >>, PText(steps), << "*" >> >>

WLine(steps) ==
    << << "W" >>, << "w" >>, << "0" >>, << "c" >>, << "0" >>, << "9" >>, WText(steps) >>

\* The sign a name is traversed with in the input files.
SignOf(name) == IF name = << "2" >> THEN "-" ELSE "+"

StepOf(name) == << name, SignOf(name) >>

Reverse(q) == [i \in 1..Len(q) |-> q[Len(q) + 1 - i]]

\* The segment lines come in numeric order of the names or in a rotation of it.
SegOrders ==
    { << << "1" >>, << "2" >>, << "1", "0" >> >>,
      << << "2" >>, << "1", "0" >>, << "1" >> >>,
      << << "1", "0" >>, << "1" >>, << "2" >> >> }

EdgePool == { << a, SignOf(a), b, SignOf(b) >> : a \in NamePool, b \in NamePool }

\* A P line walks the segments round in one of the orders above for
\* MaxPathLen steps; the W line of the same file walks them backwards.
StepsPool ==
    { [i \in 1..MaxPathLen |-> StepOf(o[((i - 1) % Len(o)) + 1])] : o \in SegOrders }

Files ==
    { [i \in 1..Len(o) |-> SLine(o[i])] \o links \o ways :
        o \in SegOrders,
        links \in { << >> } \cup { << LLine(e) >> : e \in EdgePool },
        ways \in { << >> } \cup
                 { << PLine(st), WLine(Reverse(st)) >> : st \in StepsPool } }

(***************************************************************************)
(* State: the fields of the Graph object, the arguments it was built with, *)
(* and the last call with the graph it was made on.                        *)
(***************************************************************************)
VARIABLES version, headers, segments, lines, containment, paths, walks, jumps,
          others, gfa_file, with_sequence, call, pre, nops

vars == << version, headers, segments, lines, containment, paths, walks, jumps,
           others, gfa_file, with_sequence, call, pre, nops >>

Snapshot ==
    [version |-> version, headers |-> headers, segments |-> segments,
     lines |-> lines, containment |-> containment, paths |-> paths,
     walks |-> walks, jumps |-> jumps, others |-> others]

\* Graph.__init__ raised: there is no Graph object to call anything on.
Constructed == ~(call.op = "load" /\ call.exc # "none")

\* Graph.get_path_list
get_path_list == paths \o walks

SegmentNames(segs) == { segs[i].name : i \in 1..Len(segs) }

\* Every edge endpoint and every path or walk step of the graph names a
\* segment of the graph, and no two segments share a name.
WellFormed(segs, lins, ways) ==
    /\ \A i, j \in 1..Len(segs) : segs[i].name = segs[j].name => i = j
    /\ \A i \in 1..Len(lins) : {lins[i].start, lins[i].end} \subseteq SegmentNames(segs)
    /\ \A i \in 1..Len(ways) : \A j \in 1..Len(ways[i].path) :
           ways[i].path[j][1] \in SegmentNames(segs)

\* Graph.__init__ on a file every line of which parses.
Loaded(file, gfa_type, ws) ==
    LET gfa_lines == GfaLines(file, gfa_type, ws)
    IN  /\ version = gfa_type
        /\ headers = DatasOfKind(gfa_lines, "H")
        /\ segments = DatasOfKind(gfa_lines, "S")
        /\ lines = DatasOfKind(gfa_lines, "L")
        /\ containment = DatasOfKind(gfa_lines, "C")
        /\ paths = DatasOfKind(gfa_lines, "P")
        /\ walks = DatasOfKind(gfa_lines, "W")
        /\ jumps = DatasOfKind(gfa_lines, "J")
        /\ others = DatasOfKind(gfa_lines, "Other")

\* Graph.__init__ on a file one line of which raises: no object is made.
NotLoaded(gfa_type) ==
    /\ version = gfa_type
    /\ headers = << >> /\ segments = << >> /\ lines = << >>
    /\ containment = << >> /\ paths = << >> /\ walks = << >>
    /\ jumps = << >> /\ others = << >>

Init ==
    \E file \in Files, gfa_type \in {"GFA1.1"}, ws \in BOOLEAN :
        /\ LoadOk(file, gfa_type, ws)
        /\ Loaded(file, gfa_type, ws)
        /\ WellFormed(segments, lines, paths \o walks)
        /\ gfa_file = file
        /\ with_sequence = ws
        /\ call = [op |-> "load", gfa_type |-> gfa_type, exc |-> "none", raised_at |-> 0]
        /\ pre = Snapshot
        /\ nops = 0

(***************************************************************************)
(* Lookups of the Graph.  Positions are 1-based; 0 stands for the          *)
(* ValueError of a name that no segment has.                               *)
(***************************************************************************)
get_segment_position(segs, node) ==
    IF \E i \in 1..Len(segs) : segs[i].name = node
    THEN CHOOSE i \in 1..Len(segs) :
             segs[i].name = node /\ \A j \in 1..(i - 1) : segs[j].name # node
    ELSE 0

\* node == edge.datas['start'] or node == edge.datas['stop'], on one edge:
\* the second test is made only when the first fails, and raises KeyError on
\* an edge that has no 'stop' key.
TouchRaises(edge, node) == edge.start # node /\ "stop" \notin DOMAIN edge

Touches(edge, node) ==
    edge.start = node \/ ("stop" \in DOMAIN edge /\ edge.stop = node)

\* Graph.get_edges and Graph.get_edges_positions scan every edge.
get_edges_raises(lins, node) == \E i \in 1..Len(lins) : TouchRaises(lins[i], node)

get_edges_positions(lins, node) == { i \in 1..Len(lins) : Touches(lins[i], node) }

SetMax(S) == CHOOSE x \in S : \A y \in S : y <= x

(***************************************************************************)
(* Graph.split_segments.  The result is the exception that ends the call   *)
(* and the segments and edges it leaves; paths and walks are not reached.  *)
(* Segment() makes an object without a datas attribute, so the first       *)
(* new_seg.datas of the loop raises AttributeError: no call gets further,  *)
(* and the local orient, read only after that point, is left out.          *)
(***************************************************************************)
split_segments(segment_name, future_segment_name, position_to_split) ==
    LET pos == get_segment_position(segments, segment_name)
        node_to_split == segments[pos]
        touching == get_edges_positions(lines, segment_name)
        outgoing == { i \in touching : lines[i].start = segment_name }
        redirected ==
            [i \in 1..Len(lines) |->
                IF i \in outgoing
                THEN SetKey(lines[i], "start",
                            future_segment_name[Len(future_segment_name)])
                ELSE lines[i]]
        first_seq == IF "seq" \in DOMAIN node_to_split
                     THEN Slice(node_to_split.seq, 0, position_to_split[1])
                     ELSE Repeat("N", position_to_split[1])
        edited == [segments EXCEPT ![pos] = SetKey(node_to_split, "seq", first_seq)]
    IN  IF pos = 0
        THEN [exc |-> "ValueError", segments |-> segments, lines |-> lines]
        ELSE IF Len(future_segment_name) # Len(position_to_split)
        THEN [exc |-> "ValueError", segments |-> segments, lines |-> lines]
        ELSE IF get_edges_raises(lines, segment_name)
        THEN [exc |-> "KeyError", segments |-> segments, lines |-> lines]
        ELSE IF Len(future_segment_name) = 0
        THEN [exc |-> "IndexError", segments |-> segments, lines |-> lines]
        ELSE [exc |-> "AttributeError", segments |-> edited, lines |-> redirected]

SplitNames == { SubSeq(NewNames, 1, k) : k \in 0..MaxSplit }

SplitOffsets ==
    { q \in SeqsOf(1..MaxOffset, 0, MaxSplit) : \A i \in 1..(Len(q) - 1) : q[i] < q[i + 1] }

Split ==
    \E segment_name \in NamePool \cup {AbsentName},
       future_segment_name \in SplitNames, position_to_split \in SplitOffsets :
        LET r == split_segments(segment_name, future_segment_name, position_to_split)
        IN  /\ Constructed
            /\ nops < MaxOps
            /\ nops' = nops + 1
            /\ pre' = Snapshot
            /\ segments' = r.segments
            /\ lines' = r.lines
            /\ call' = [op |-> "split", segment_name |-> segment_name,
                        future_segment_name |-> future_segment_name,
                        position_to_split |-> position_to_split, exc |-> r.exc]
            /\ UNCHANGED << version, headers, containment, paths, walks, jumps,
                            others, gfa_file, with_sequence >>

(***************************************************************************)
(* Graph.merge_segments.                                                   *)
(***************************************************************************)
\* sorted(segs, key=int): stable, ascending in the number each name reads as.
RECURSIVE InsertByInt(_, _)
InsertByInt(q, x) ==
    IF Len(q) = 0 THEN << x >>
    ELSE IF IntOf(x) < IntOf(Head(q)) THEN << x >> \o q
    ELSE << Head(q) >> \o InsertByInt(Tail(q), x)

RECURSIVE SortedByInt(_)
SortedByInt(q) ==
    IF Len(q) = 0 THEN << >>
    ELSE InsertByInt(SortedByInt(SubSeq(q, 1, Len(q) - 1)), q[Len(q)])

RECURSIVE Sum(_)
Sum(q) == IF Len(q) = 0 THEN 0 ELSE Head(q) + Sum(Tail(q))

\* [x for i, x in enumerate(q) if i not in drop], positions 1-based.
RECURSIVE WithoutPositions(_, _, _)
WithoutPositions(q, drop, i) ==
    IF i > Len(q) THEN << >>
    ELSE (IF i \in drop THEN << >> ELSE << q[i] >>) \o WithoutPositions(q, drop, i + 1)

\* merged_length with = in the place of +=: the length left_most had is lost.
merged_length_assigned(segs, segments_positions) ==
    Sum([i \in 1..(Len(segments_positions) - 1) |-> segs[segments_positions[i + 1]].length])

\* left_most.datas['length'] += sum of the lengths at segments_positions[1:]
merged_length(segs, segments_positions) ==
    segs[segments_positions[1]].length +
    Sum([i \in 1..(Len(segments_positions) - 1) |-> segs[segments_positions[i + 1]].length])

\* ''.join of the sequences at segments_positions, in that order
merged_seq(segs, segments_positions) ==
    Join([i \in 1..Len(segments_positions) |-> segs[segments_positions[i]].seq])

\* The value the loop over a path leaves in start_pos or end_pos: the 0-based
\* index of the last step named name, or the initial 0 when there is none.
LastStepOf(steps, name) ==
    IF \E i \in 1..Len(steps) : steps[i][1] = name
    THEN SetMax({ i \in 1..Len(steps) : steps[i][1] = name }) - 1
    ELSE 0

\* The path edit of merge_segments on the steps of one path or walk.  A step
\* named as left_most is never tested against right_most (elif).
merged_path(steps, left_most_name, right_most_name) ==
    LET start_pos == LastStepOf(steps, left_most_name)
        end_pos == IF left_most_name = right_most_name THEN 0
                   ELSE LastStepOf(steps, right_most_name)
    IN  IF start_pos # 0 /\ end_pos # 0
        THEN Slice(steps, 0, Min(start_pos, end_pos)) \o
             SliceFrom(steps, Max(start_pos, end_pos))
        ELSE steps

merged_ways(ways, left_most_name, right_most_name) ==
    [i \in 1..Len(ways) |->
        SetKey(ways[i], "path", merged_path(ways[i].path, left_most_name, right_most_name))]

merge_segments(segs) ==
    LET names == SortedByInt(segs)
        segments_positions ==
            [i \in 1..Len(names) |-> get_segment_position(segments, names[i])]
        n == Len(segments_positions)
        left_pos == segments_positions[1]
        right_pos == segments_positions[n]
        left_most == segments[left_pos]
        left_most_name == left_most.name
        right_most_name == segments[right_pos].name
        seg1 == [segments EXCEPT
                    ![left_pos] = SetKey(left_most, "length",
                                         merged_length(segments, segments_positions))]
        seg2 == IF "seq" \in DOMAIN left_most
                THEN [seg1 EXCEPT
                        ![left_pos] = SetKey(seg1[left_pos], "seq",
                                             merged_seq(seg1, segments_positions))]
                ELSE seg1
        edges_to_edit == get_edges_positions(lines, right_most_name)
        lines1 ==
            [i \in 1..Len(lines) |->
                IF i \notin edges_to_edit THEN lines[i]
                ELSE IF lines[i].start = right_most_name
                THEN SetKey(lines[i], "start", left_most_name)
                ELSE SetKey(lines[i], "stop", left_most_name)]
        interior == { segments_positions[i] : i \in 2..(n - 1) }
        edges_to_delete ==
            UNION { get_edges_positions(lines1, seg2[p].name) : p \in interior }
        unchanged == [segments |-> segments, lines |-> lines,
                      paths |-> paths, walks |-> walks]
    IN  IF \E i \in 1..Len(segs) : ~IntOk(segs[i])
        THEN [exc |-> "ValueError"] @@ unchanged
        ELSE IF \E i \in 1..n : segments_positions[i] = 0
        THEN [exc |-> "ValueError"] @@ unchanged
        ELSE IF n = 0
        THEN [exc |-> "IndexError"] @@ unchanged
        ELSE IF "seq" \in DOMAIN left_most /\
                \E i \in 1..n : "seq" \notin DOMAIN segments[segments_positions[i]]
        THEN [exc |-> "KeyError", segments |-> seg1] @@ unchanged
        ELSE IF get_edges_raises(lines, right_most_name)
        THEN [exc |-> "KeyError", segments |-> seg2] @@ unchanged
        ELSE IF \E p \in interior : get_edges_raises(lines1, seg2[p].name)
        THEN [exc |-> "KeyError", segments |-> seg2, lines |-> lines1] @@ unchanged
        ELSE [exc |-> "none", ret |-> left_most_name,
              segments |-> WithoutPositions(seg2, interior, 1),
              lines |-> WithoutPositions(lines1, edges_to_delete, 1),
              paths |-> merged_ways(paths, left_most_name, right_most_name),
              walks |-> merged_ways(walks, left_most_name, right_most_name)]

\* The largest number of names given to a merge.
MaxMerge == 3

\* The names given to merge: up to MaxMerge names of the input file, none
\* twice, in any order; or the names of a split, the split segment first.
MergeArgs ==
    InjSeqsOf(NamePool, 0, MaxMerge) \cup
    { << s >> \o f : s \in NamePool, f \in SplitNames }

Merge ==
    \E segs \in MergeArgs :
        LET r == merge_segments(segs)
        IN  /\ Constructed
            /\ nops < MaxOps
            /\ nops' = nops + 1
            /\ pre' = Snapshot
            /\ segments' = r.segments
            /\ lines' = r.lines
            /\ paths' = r.paths
            /\ walks' = r.walks
            /\ call' = [op |-> "merge", segs |-> segs, exc |-> r.exc] @@
                       (IF r.exc = "none" THEN [ret |-> r.ret] ELSE << >>)
            /\ UNCHANGED << version, headers, containment, jumps, others, gfa_file,
                            with_sequence >>

Next == Split \/ Merge


Spec == Init /\ [][Next]_vars

(***************************************************************************)
(* assert_format: the style the populated collections ask for.             *)
(***************************************************************************)
assert_format_walks_first ==
    IF Len(others) > 0 THEN "GFA2"
    ELSE IF Len(walks) > 0 THEN "GFA1.1"
    ELSE IF Len(jumps) > 0 THEN "GFA1.2"
    ELSE IF Len(headers) > 0 \/ Len(paths) > 0 THEN "GFA1"
    ELSE "rGFA"

assert_format ==
    IF Len(others) > 0 THEN "GFA2"
    ELSE IF Len(jumps) > 0 THEN "GFA1.2"
    ELSE IF Len(walks) > 0 THEN "GFA1.1"
    ELSE IF Len(headers) > 0 \/ Len(paths) > 0 THEN "GFA1"
    ELSE "rGFA"

AssertFormat ==
    /\ Constructed
    /\ nops < MaxOps
    /\ nops' = nops + 1
    /\ pre' = Snapshot
    /\ version' = assert_format
    /\ call' = [op |-> "assert_format", exc |-> "none", ret |-> assert_format]
    /\ UNCHANGED << headers, segments, lines, containment, paths, walks, jumps,
                    others, gfa_file, with_sequence >>

(***************************************************************************)
(* get_edges and get_edges_positions as called from outside: the list      *)
(* returned, positions counted from 0 as enumerate does.                   *)
(***************************************************************************)
get_edges(lins, node) == SelectSeq(lins, LAMBDA edge : Touches(edge, node))

RECURSIVE PositionsFrom(_, _, _)
PositionsFrom(lins, node, i) ==
    IF i > Len(lins) THEN << >>
    ELSE (IF Touches(lins[i], node) THEN << i - 1 >> ELSE << >>) \o
         PositionsFrom(lins, node, i + 1)

GetEdges ==
    \E node \in NamePool \cup {AbsentName} :
        /\ Constructed
        /\ nops < MaxOps
        /\ nops' = nops + 1
        /\ pre' = Snapshot
        /\ call' = IF get_edges_raises(lines, node)
                   THEN [op |-> "get_edges", node |-> node, exc |-> "KeyError"]
                   ELSE [op |-> "get_edges", node |-> node, exc |-> "none",
                         ret |-> get_edges(lines, node)]
        /\ UNCHANGED << version, headers, segments, lines, containment, paths,
                        walks, jumps, others, gfa_file, with_sequence >>

GetEdgesPositions ==
    \E node \in NamePool \cup {AbsentName} :
        /\ Constructed
        /\ nops < MaxOps
        /\ nops' = nops + 1
        /\ pre' = Snapshot
        /\ call' = IF get_edges_raises(lines, node)
                   THEN [op |-> "get_edges_positions", node |-> node,
                         exc |-> "KeyError"]
                   ELSE [op |-> "get_edges_positions", node |-> node,
                         exc |-> "none", ret |-> PositionsFrom(lines, node, 1)]
        /\ UNCHANGED << version, headers, segments, lines, containment, paths,
                        walks, jumps, others, gfa_file, with_sequence >>

(***************************************************************************)
(* save_graph and write_path.  The file written is one text, each          *)
(* character of it an element; "None" is the output_format not given.     *)
(***************************************************************************)
\* The characters of a dict key.
Chars(key) == [i \in 1..Len(key) |-> SubSeq(key, i, i)]

\* key.startswith('ARG')
StartsWithARG(key) == Len(key) >= 3 /\ SubSeq(key, 1, 3) = "ARG"

\* sep.join(parts) for a one-character sep.
RECURSIVE JoinWith(_, _)
JoinWith(parts, sep) ==
    IF Len(parts) = 0 THEN << >>
    ELSE IF Len(parts) = 1 THEN Head(parts)
    ELSE Head(parts) \o << sep >> \o JoinWith(Tail(parts), sep)

\* str(n) for n >= 0.
RECURSIVE IntText(_)
IntText(n) ==
    LET last == CHOOSE c \in Digits : DigitVal(c) = n % 10
    IN  IF n < 10 THEN << last >> ELSE IntText(n \div 10) \o << last >>

\* dtype(value): every value written as a tag is a str in this model.
dtype(value) == "Z"

\* The keys of a record's dict outside fixed, in insertion order: the keys of
\* the trailing fields of its line (one at most in this model's files), then
\* 'stop', which only merge_segments sets.
ExtraKeys(datas, fixed) ==
    LET parsed == DOMAIN datas \ (fixed \cup {"stop"})
        first == CHOOSE q \in [1..Cardinality(parsed) -> parsed] :
                     \A k \in parsed : \E i \in 1..Cardinality(parsed) : q[i] = k
    IN  first \o (IF "stop" \in DOMAIN datas \ fixed THEN << "stop" >> ELSE << >>)

\* f"{key}:{dtype(value)}:{value}" if not key.startswith('ARG') else str(value)
TagText(key, value) ==
    IF StartsWithARG(key) THEN value
    ELSE Chars(key) \o << ":", dtype(value), ":" >> \o value

TagsText(datas, fixed) ==
    LET keys == ExtraKeys(datas, fixed)
    IN  JoinWith([i \in 1..Len(keys) |-> TagText(keys[i], datas[keys[i]])], "\t")

HeaderText(head) == << "H", "\t" >> \o TagsText(head, {}) \o << "\n" >>

SegmentText(seg) ==
    << "S", "\t" >> \o seg.name \o << "\t" >> \o
    (IF "seq" \in DOMAIN seg THEN seg.seq ELSE Repeat("N", seg.length)) \o
    << "\t" >> \o TagsText(seg, {"length", "seq", "name"}) \o << "\n" >>

LineText(lin) ==
    LET ori == SplitOn(lin.orientation, "/")
    IN  << "L", "\t" >> \o lin.start \o << "\t" >> \o ori[1] \o << "\t" >> \o
        lin.end \o << "\t" >> \o ori[2] \o << "\t" >> \o
        TagsText(lin, {"orientation", "start", "end"}) \o << "\n" >>

write_path(way, gfa_format, line_number) ==
    IF gfa_format = "GFA1"
    THEN << "P", "\t" >> \o way.name \o << "\t" >> \o
         JoinWith([i \in 1..Len(way.path) |->
                       way.path[i][1] \o
                       << IF way.path[i][2] = "+" THEN "+" ELSE "-" >>], ",") \o
         << "\t", "*" >>
    ELSE IF gfa_format \in {"GFA1.1", "GFA1.2", "GFA2"}
    THEN LET offset_start == IF "start_offset" \in DOMAIN way
                             THEN way.start_offset ELSE << "?" >>
             offset_stop == IF "stop_offset" \in DOMAIN way
                            THEN way.stop_offset ELSE << "?" >>
             strpath == Join([i \in 1..Len(way.path) |->
                                 << IF way.path[i][2] = "+" THEN ">" ELSE "<" >> \o
                                 way.path[i][1]])
         IN  << "W", "\t" >> \o way.name \o << "\t" >> \o
             (IF "origin" \in DOMAIN way THEN IntText(way.origin)
              ELSE IntText(line_number)) \o
             << "\t" >> \o way.name \o << "\t" >> \o offset_start \o << "\t" >> \o
             offset_stop \o << "\t" >> \o strpath \o << "\t", "*", "\n" >>
    ELSE << >>

\* The text save_graph writes; line_number counts from 0.
save_graph(output_format) ==
    LET format == IF output_format = "None" THEN version ELSE output_format
        pathlist == get_path_list
    IN  (IF Len(headers) > 0 /\ format # "rGFA"
         THEN Join([i \in 1..Len(headers) |-> HeaderText(headers[i])])
         ELSE << >>) \o
        Join([i \in 1..Len(segments) |-> SegmentText(segments[i])]) \o
        Join([i \in 1..Len(lines) |-> LineText(lines[i])]) \o
        Join([i \in 1..Len(pathlist) |-> write_path(pathlist[i], format, i - 1)])

SaveGraph ==
    \E output_format \in GfaStyle \cup {"None"} :
        /\ Constructed
        /\ nops < MaxOps
        /\ nops' = nops + 1
        /\ pre' = Snapshot
        /\ call' = [op |-> "save", output_format |-> output_format,
                    exc |-> "none", written |-> save_graph(output_format)]
        /\ UNCHANGED << version, headers, segments, lines, containment, paths,
                        walks, jumps, others, gfa_file, with_sequence >>

(***************************************************************************)
(* The whole program on files of every record kind, loaded under every     *)
(* style.                                                                  *)
(***************************************************************************)
HLine == << << "H" >>, << "V", "N", ":", "Z", ":", "1" >> >>

CLine ==
    << << "C" >>, << "1" >>, << "+" >>, << "2" >>, << "+" >>, << "0" >>, << "*" >> >>

JLine == << << "J" >>, << "1" >>, << "+" >>, << "2" >>, << "+" >>, << "*" >> >>

\* A comment line: its first character names no record kind.
XLine == << << "#" >>, << "x" >> >>

QLine(steps) == << << "P" >>, << "q" >>, PText(steps), << "*" >> >>

KindSteps == << StepOf(<< "1" >>), StepOf(<< "2" >>) >>

\* The lines that follow the segments and edges of a file without a header,
\* and of a file with one.
KindTails ==
    { << >>, << CLine >>, << PLine(KindSteps) >>, << WLine(KindSteps) >>,
      << JLine >>, << XLine >>,
      << PLine(KindSteps), QLine(Reverse(KindSteps)) >>,
      << WLine(KindSteps), JLine >>, << JLine, WLine(KindSteps) >>,
      << XLine, PLine(KindSteps) >> }

HeadedTails ==
    { << >>, << WLine(KindSteps) >>,
      << CLine, PLine(KindSteps), WLine(Reverse(KindSteps)), JLine, XLine >> }

KindLinks ==
    { << >>,
      << LLine(<< << "1" >>, "+", << "1" >>, "+" >>) >>,
      << LLine(<< << "1" >>, "+", << "2" >>, "-" >>),
         LLine(<< << "2" >>, "-", << "1" >>, "+" >>) >> }

KindFiles ==
    { << SLine(<< "1" >>), SLine(<< "2" >>) >> \o links \o tail :
        links \in KindLinks, tail \in KindTails } \cup
    { << HLine, SLine(<< "1" >>), SLine(<< "2" >>) >> \o links \o tail :
        links \in KindLinks, tail \in HeadedTails }

InitIO ==
    \E file \in KindFiles, gfa_type \in GfaStyle, ws \in BOOLEAN :
        /\ IF LoadOk(file, gfa_type, ws) THEN Loaded(file, gfa_type, ws)
           ELSE NotLoaded(gfa_type)
        /\ gfa_file = file
        /\ with_sequence = ws
        /\ call = [op |-> "load", gfa_type |-> gfa_type,
                   exc |-> IF LoadOk(file, gfa_type, ws) THEN "none" ELSE "ValueError",
                   raised_at |-> FirstRaised(file, gfa_type, ws)]
        /\ pre = Snapshot
        /\ nops = 0

NextIO == Split \/ Merge \/ AssertFormat \/ GetEdges \/ GetEdgesPositions \/ SaveGraph

SpecIO == InitIO /\ [][NextIO]_vars

(***************************************************************************)
(* What the properties below speak of: the last call, the graph before it  *)
(* (pre) and the graph after it (the state).                               *)
(***************************************************************************)
HasSegment(segs, name) == \E i \in 1..Len(segs) : segs[i].name = name

SegmentNamed(segs, name) == segs[CHOOSE i \in 1..Len(segs) : segs[i].name = name]

\* The sequence of a segment: the stored one, or N repeated length times.
SeqOrFill(seg) == IF "seq" \in DOMAIN seg THEN seg.seq ELSE Repeat("N", seg.length)

\* A split call the contract covers: an existing segment, k >= 1 names and
\* as many offsets.
ValidSplit ==
    /\ call.op = "split"
    /\ HasSegment(pre.segments, call.segment_name)
    /\ Len(call.future_segment_name) >= 1
    /\ Len(call.future_segment_name) = Len(call.position_to_split)

\* A merge call the contract covers: at least one name, every name that of
\* an existing segment.
ValidMerge ==
    /\ call.op = "merge"
    /\ Len(call.segs) >= 1
    /\ \A i \in 1..Len(call.segs) : HasSegment(pre.segments, call.segs[i])

StepNames(steps) == [i \in 1..Len(steps) |-> steps[i][1]]

Occurrences(steps, name) == { i \in 1..Len(steps) : steps[i][1] = name }

\* C1: a split or merge call that ends in an error leaves segments, edges,
\* paths and walks exactly as they were before the call.
C1_FailedEditLeavesGraph ==
    (call.op \in {"split", "merge"} /\ call.exc # "none") => Snapshot = pre

\* C2: a split of an existing segment s with sequence q at k >= 1 offsets
\* completes; s keeps its name, holds q[0:offsets[0]] and has length
\* offsets[0]; k segments are appended, the i-th named new_names[i], holding
\* q[offsets[i]:offsets[i+1]] (the last slice ends at len(q)) and as long.
C2_SplitFragments ==
    ValidSplit =>
        LET s == call.segment_name
            k == Len(call.future_segment_name)
            q == SeqOrFill(SegmentNamed(pre.segments, s))
            cut == call.position_to_split \o << Len(q) >>
            n == Len(pre.segments)
        IN  /\ call.exc = "none"
            /\ Len(segments) = n + k
            /\ HasSegment(segments, s)
            /\ SeqOrFill(SegmentNamed(segments, s)) = Slice(q, 0, cut[1])
            /\ SegmentNamed(segments, s).length = cut[1]
            /\ \A i \in 1..k :
                   /\ segments[n + i].name = call.future_segment_name[i]
                   /\ SeqOrFill(segments[n + i]) = Slice(q, cut[i], cut[i + 1])
                   /\ segments[n + i].length = Len(Slice(q, cut[i], cut[i + 1]))

\* The steps a path has after a split of s into new_names, when s is one of
\* its steps exactly once: the new names in order at the place of s.
StepNamesAfterSplit(steps, s, new_names) ==
    LET at == CHOOSE i \in 1..Len(steps) : steps[i][1] = s
    IN  SubSeq(StepNames(steps), 1, at - 1) \o new_names \o
        SubSeq(StepNames(steps), at + 1, Len(steps))

\* C3: after a split of s, a path or walk in which s occurred once names the
\* new segments, in order, at that place and its other steps are as before;
\* a path or walk without s is unchanged.
C3_SplitRewritesPaths ==
    ValidSplit =>
        LET before == pre.paths \o pre.walks
            after == paths \o walks
            s == call.segment_name
        IN  /\ Len(after) = Len(before)
            /\ \A i \in 1..Len(before) :
                   LET occ == Occurrences(before[i].path, s)
                   IN  /\ occ = {} => after[i] = before[i]
                       /\ Cardinality(occ) = 1 =>
                              /\ StepNames(after[i].path) =
                                     StepNamesAfterSplit(before[i].path, s,
                                                         call.future_segment_name)
                              /\ \A j \in 1..Len(before[i].path) :
                                     j \notin occ =>
                                         \E m \in 1..Len(after[i].path) :
                                             after[i].path[m] = before[i].path[j]

\* C4: every step of every path and walk names a segment of the graph.
C4_StepsNameSegments ==
    \A i \in 1..Len(get_path_list) :
        \A j \in 1..Len(get_path_list[i].path) :
            HasSegment(segments, get_path_list[i].path[j][1])

\* C5: after a split of s, an edge that started at s starts at the last new
\* name and is otherwise as before, every other edge is as before, and the
\* appended edges are those of the chain s -> new_names[0] -> ... -> last
\* name, each with a start and an end field like a parsed edge.
C5_SplitEdges ==
    ValidSplit =>
        LET s == call.segment_name
            k == Len(call.future_segment_name)
            chain == << s >> \o call.future_segment_name
            n == Len(pre.lines)
        IN  /\ Len(lines) = n + k
            /\ \A i \in 1..n :
                   lines[i] = IF pre.lines[i].start = s
                              THEN SetKey(pre.lines[i], "start", chain[k + 1])
                              ELSE pre.lines[i]
            /\ \A i \in 1..k :
                   /\ {"start", "end"} \subseteq DOMAIN lines[n + i]
                   /\ lines[n + i].start = chain[i]
                   /\ lines[n + i].end = chain[i + 1]

\* The names of S in ascending order of the numbers they read as.
RECURSIVE AscendingByNumber(_)
AscendingByNumber(S) ==
    IF S = {} THEN << >>
    ELSE LET m == CHOOSE x \in S : \A y \in S : IntOf(x) <= IntOf(y)
         IN  << m >> \o AscendingByNumber(S \ {m})

\* C6: a merge of existing segments sets the length of the numerically
\* lowest-named operand to the sum of the operands' lengths and, when the
\* graph was loaded with its sequences, its sequence to the operands'
\* sequences joined in ascending order of the names; segments that are not
\* operands keep their length and sequence.
C6_MergeLengthAndSequence ==
    ValidMerge =>
        LET operands == AscendingByNumber(Range(call.segs))
            left == operands[1]
            before == [i \in 1..Len(operands) |-> SegmentNamed(pre.segments, operands[i])]
        IN  /\ HasSegment(segments, left)
            /\ SegmentNamed(segments, left).length =
                   Sum([i \in 1..Len(before) |-> before[i].length])
            /\ with_sequence =>
                   SegmentNamed(segments, left).seq =
                       Join([i \in 1..Len(before) |-> before[i].seq])
            /\ \A i \in 1..Len(pre.segments) :
                   pre.segments[i].name \notin Range(call.segs) =>
                       \E j \in 1..Len(segments) : segments[j] = pre.segments[i]
            /\ \A j \in 1..Len(segments) :
                   segments[j].name \notin Range(call.segs) =>
                       \E i \in 1..Len(pre.segments) : pre.segments[i] = segments[j]

\* A merge of all three segments of a graph loaded with its sequences, whose
\* segments are not stored in ascending order, has returned.
C6_Witness ==
    /\ ValidMerge
    /\ Len(call.segs) = 3
    /\ with_sequence
    /\ call.exc = "none"
    /\ [i \in 1..Len(pre.segments) |-> pre.segments[i].name] #
           AscendingByNumber(SegmentNames(pre.segments))

\* C7: a merge of two or more existing segments returns the lowest name; no
\* edge starts or ends at the highest-named operand any more, nor at an
\* operand strictly between the two; the operands strictly between are no
\* longer segments; every other segment and edge is kept, in order.
C7_MergeEdgesAndSegments ==
    (ValidMerge /\ Len(call.segs) >= 2) =>
        LET operands == AscendingByNumber(Range(call.segs))
            left == operands[1]
            right == operands[Len(operands)]
            interior == { operands[i] : i \in 2..(Len(operands) - 1) }
            kept_edges == SelectSeq(pre.lines,
                              LAMBDA e : e.start \notin interior /\ e.end \notin interior)
        IN  /\ call.exc = "none"
            /\ call.ret = left
            /\ \A i \in 1..Len(lines) :
                   /\ lines[i].start \notin interior \cup {right}
                   /\ lines[i].end \notin interior \cup {right}
            /\ [i \in 1..Len(segments) |-> segments[i].name] =
                   SelectSeq([i \in 1..Len(pre.segments) |-> pre.segments[i].name],
                             LAMBDA x : x \notin interior)
            /\ Len(lines) = Len(kept_edges)
            /\ \A i \in 1..Len(lines) :
                   /\ lines[i].start =
                          IF kept_edges[i].start = right THEN left ELSE kept_edges[i].start
                   /\ lines[i].end =
                          IF kept_edges[i].end = right THEN left ELSE kept_edges[i].end

\* C8: when a merge returns, a path or walk in which the lowest and the
\* highest operand name each occur once has lost exactly the steps strictly
\* between the two and kept both; one in which either name does not occur
\* is unchanged.
C8_MergeEditsPaths ==
    (ValidMerge /\ Len(call.segs) >= 2 /\ call.exc = "none") =>
        LET operands == AscendingByNumber(Range(call.segs))
            left == operands[1]
            right == operands[Len(operands)]
            before == pre.paths \o pre.walks
            after == paths \o walks
        IN  /\ Len(after) = Len(before)
            /\ \A i \in 1..Len(before) :
                   LET steps == before[i].path
                       l == Occurrences(steps, left)
                       r == Occurrences(steps, right)
                   IN  /\ (l = {} \/ r = {}) => after[i] = before[i]
                       /\ (Cardinality(l) = 1 /\ Cardinality(r) = 1) =>
                              after[i].path =
                                  SubSeq(steps, 1, SetMax({ Min(a, b) : a \in l, b \in r })) \o
                                  SubSeq(steps, SetMax(l \cup r), Len(steps))

\* C9: a split of s followed by the merge of s and the new names gives back,
\* under one of these names, a segment with the sequence and the length s
\* had before the split, and paths and walks with as many steps as before.
C9_SplitThenMergeRestores ==
    [][(/\ ValidSplit
        /\ call'.op = "merge"
        /\ call'.segs = << call.segment_name >> \o call.future_segment_name)
       => LET original == SegmentNamed(pre.segments, call.segment_name)
              before == pre.paths \o pre.walks
              after == paths' \o walks'
          IN  /\ call'.exc = "none"
              /\ HasSegment(segments', call'.ret)
              /\ SeqOrFill(SegmentNamed(segments', call'.ret)) = SeqOrFill(original)
              /\ SegmentNamed(segments', call'.ret).length = original.length
              /\ Len(after) = Len(before)
              /\ \A i \in 1..Len(before) : Len(after[i].path) = Len(before[i].path)]_vars

\* C10: a segment that stores a sequence has a length equal to the length of
\* that sequence.
C10_LengthIsSequenceLength ==
    \A i \in 1..Len(segments) :
        "seq" \in DOMAIN segments[i] => segments[i].length = Len(segments[i].seq)

\* C11: assert_format returns GFA2 when the graph has an Other record,
\* else GFA1.2 when it has a Jump, else GFA1.1 when it has a Walk, else GFA1
\* when it has a Header or a Path, else rGFA, whatever style the graph was
\* declared with, and the graph's version is then the value returned; so a
\* graph with a Jump never gets less than GFA1.2, and a graph of segments
\* and edges alone gets rGFA.
C11_InferStyle ==
    call.op = "assert_format" =>
        /\ call.exc = "none"
        /\ call.ret = CASE pre.others # << >> -> "GFA2"
                        [] pre.others = << >> /\ pre.jumps # << >> -> "GFA1.2"
                        [] pre.others = << >> /\ pre.jumps = << >> /\
                           pre.walks # << >> -> "GFA1.1"
                        [] pre.others = << >> /\ pre.jumps = << >> /\
                           pre.walks = << >> /\
                           (pre.headers # << >> \/ pre.paths # << >>) -> "GFA1"
                        [] OTHER -> "rGFA"
        /\ version = call.ret
        /\ (pre.jumps # << >> => call.ret \in {"GFA1.2", "GFA2"})
        /\ (/\ pre.headers = << >> /\ pre.containment = << >> /\ pre.paths = << >>
            /\ pre.walks = << >> /\ pre.jumps = << >> /\ pre.others = << >>
            => call.ret = "rGFA")

\* C11 witness: a graph declared GFA2 that holds walks and jumps and no Other
\* record is asked for its style and answers GFA1.2.
C11_Witness ==
    /\ call.op = "assert_format"
    /\ pre.version = "GFA2"
    /\ pre.jumps # << >> /\ pre.walks # << >> /\ pre.others = << >>
    /\ call.ret = "GFA1.2"
    /\ version = "GFA1.2"

\* The claim's table of the record kinds a declared style refuses.
Gated(kind, style) ==
    \/ kind \in {"H", "C", "P"} /\ style = "rGFA"
    \/ kind = "W" /\ style \in {"rGFA", "GFA1"}
    \/ kind = "J" /\ style \in {"rGFA", "GFA1", "GFA1.1"}

KindsOf(file) == [i \in 1..Len(file) |-> LineType(file[i])]

\* C12: a load fails, on the first line whose kind the declared style
\* refuses, and makes no graph when the file has such a line (Header,
\* Containment, Path under rGFA; Walk under rGFA and GFA1; Jump under rGFA,
\* GFA1 and GFA1.1); a file of Segment and Edge lines loads under every style;
\* and a graph that was loaded holds no record of a kind its style refuses.
\* Lines of no known kind are left to the code: the first refused line is
\* looked at when no such line comes before it.
C12_VersionGating ==
    call.op = "load" =>
        LET kinds == KindsOf(gfa_file)
            refused == { i \in 1..Len(kinds) : Gated(kinds[i], call.gfa_type) }
        IN  /\ refused # {} =>
                   /\ call.exc # "none"
                   /\ ~Constructed
                   /\ \A i \in refused :
                          (\A j \in 1..(i - 1) : j \notin refused /\ kinds[j] # "Other")
                              => call.raised_at = i
            /\ (\A i \in 1..Len(kinds) : kinds[i] \in {"S", "L"}) =>
                   /\ call.exc = "none"
                   /\ Len(segments) + Len(lines) = Len(gfa_file)
            /\ call.exc = "none" =>
                   /\ refused = {}
                   /\ (headers # << >> \/ containment # << >> \/ paths # << >>)
                          => version # "rGFA"
                   /\ walks # << >> => version \notin {"rGFA", "GFA1"}
                   /\ jumps # << >> => version \notin {"rGFA", "GFA1", "GFA1.1"}

\* C12 witness: a file with a W line and then a J line is loaded as GFA1.1;
\* the W line is taken and the load fails on the J line.
C12_Witness ==
    /\ call.op = "load"
    /\ call.gfa_type = "GFA1.1"
    /\ call.exc = "ValueError"
    /\ call.raised_at > 1
    /\ LineType(gfa_file[call.raised_at]) = "J"
    /\ \E j \in 1..(call.raised_at - 1) : LineType(gfa_file[j]) = "W"

\* The style a save writes in: the one asked for, or the graph's own.
SavedFormat == IF call.output_format = "None" THEN version ELSE call.output_format

\* The first characters of the records a save is to write, in the order it
\* is to write them: headers when the style has them, segments, edges, then
\* paths and walks, each as a P line under GFA1 and as a W line under
\* GFA1.1, GFA1.2 and GFA2.  (Under rGFA and unknown the claim names no form
\* for a path: none is counted.)
SavedKinds ==
    LET way == IF SavedFormat = "GFA1" THEN "P" ELSE "W"
        ways == IF SavedFormat \in {"GFA1", "GFA1.1", "GFA1.2", "GFA2"}
                THEN Len(paths) + Len(walks) ELSE 0
    IN  [i \in 1..(IF SavedFormat # "rGFA" THEN Len(headers) ELSE 0) |-> "H"] \o
        [i \in 1..Len(segments) |-> "S"] \o
        [i \in 1..Len(lines) |-> "L"] \o
        [i \in 1..ways |-> way]

\* C13: the text a save writes is its records one after the other, each
\* followed by a newline: cut at the newlines it gives exactly one
\* non-empty piece per record, in the order headers, segments, edges, paths
\* and walks, and nothing after the last newline.
C13_SaveOneRecordPerLine ==
    call.op = "save" =>
        LET pieces == SplitOn(call.written, "\n")
            n == Len(SavedKinds)
        IN  /\ Len(pieces) = n + 1
            /\ pieces[n + 1] = << >>
            /\ \A k \in 1..n : Len(pieces[k]) > 0 /\ pieces[k][1] = SavedKinds[k]

\* C14: a GFA1 file of S lines (name, sequence) and L lines (start,
\* orientation, end, orientation, '*'), loaded with its sequences and saved
\* at once in the same style, is written line for line with the fields it
\* had.
C14_LoadSaveRoundTrip ==
    (/\ call.op = "save"
     /\ nops = 1
     /\ version = "GFA1"
     /\ call.output_format \in {"None", "GFA1"}
     /\ with_sequence
     /\ \A i \in 1..Len(gfa_file) : LineType(gfa_file[i]) \in {"S", "L"})
    => LET pieces == SplitOn(call.written, "\n")
       IN  /\ Len(pieces) = Len(gfa_file) + 1
           /\ pieces[Len(pieces)] = << >>
           /\ \A k \in 1..Len(gfa_file) : SplitOn(pieces[k], "\t") = gfa_file[k]

\* C15: get_edges(n) returns the edges that start or end at n, in the
\* order of the graph's edges, get_edges_positions(n) their positions
\* (counted from 0), and neither changes the graph.
C15_EdgeLookups ==
    call.op \in {"get_edges", "get_edges_positions"} =>
        LET touching == { i \in 1..Len(pre.lines) :
                            pre.lines[i].start = call.node \/ pre.lines[i].end = call.node }
        IN  /\ call.exc = "none"
            /\ Len(call.ret) = Cardinality(touching)
            /\ \A k \in 1..Len(call.ret) :
                   \E i \in touching :
                       /\ Cardinality({ j \in touching : j < i }) = k - 1
                       /\ call.ret[k] = IF call.op = "get_edges"
                                        THEN pre.lines[i] ELSE i - 1
            /\ Snapshot = pre

====
